---- MODULE Spec2Model ----
(***************************************************************************)
(* Model of the invoice extraction pipeline of invoice_Agent.py: the       *)
(* numeric/date normalizers, the display formatter, the regex findings,    *)
(* the merge policy merge_ai_and_regex and the batch loop over the         *)
(* uploaded files.                                                         *)
(*                                                                         *)
(* A Python str is a sequence of one-character strings.  Python's None is  *)
(* the sentinel None, an exception that leaves a function is the sentinel  *)
(* Raised; neither is a sequence of characters a document can contain.     *)
(***************************************************************************)
EXTENDS Integers, Sequences, FiniteSets, TLC

VARIABLES pc, call, ret, use_ai, use_ocr_fallback, ocr_ready, uploaded_files, doc_index,
          text, header_supplier, regex_data, ai_data, extracted, results_list,
          native_text, ocr_text, response, requests_sent

vars == <<pc, call, ret, use_ai, use_ocr_fallback, ocr_ready, uploaded_files, doc_index,
          text, header_supplier, regex_data, ai_data, extracted, results_list,
          native_text, ocr_text, response, requests_sent>>

None == <<"None">>
Raised == <<"Raised">>

(***************************************************************************)
(* Characters and the str methods the code uses.                           *)
(***************************************************************************)
Digits == <<"0", "1", "2", "3", "4", "5", "6", "7", "8", "9">>
UpperLetters == <<"A", "B", "C", "D", "E", "F", "G", "H", "I", "J", "K", "L", "M",
                  "N", "O", "P", "Q", "R", "S", "T", "U", "V", "W", "X", "Y", "Z">>
LowerLetters == <<"a", "b", "c", "d", "e", "f", "g", "h", "i", "j", "k", "l", "m",
                  "n", "o", "p", "q", "r", "s", "t", "u", "v", "w", "x", "y", "z">>

Range(f) == {f[k] : k \in DOMAIN f}

IsDecimalChar(c) == c \in Range(Digits)

\* str.isdigit() is also true of digit-like characters float() rejects
IsDigitChar(c) == IsDecimalChar(c) \/ c = "²"

IsSpaceChar(c) == c \in {" ", "\t", "\n"}

IsWordChar(c) == c \in Range(Digits) \cup Range(UpperLetters) \cup Range(LowerLetters) \cup {"_"}

DigitVal(c) == (CHOOSE k \in 1..10 : Digits[k] = c) - 1

LowerChar(c) ==
  IF c \in Range(UpperLetters)
    THEN LowerLetters[CHOOSE k \in 1..26 : UpperLetters[k] = c]
    ELSE c

UpperChar(c) ==
  IF c \in Range(LowerLetters)
    THEN UpperLetters[CHOOSE k \in 1..26 : LowerLetters[k] = c]
    ELSE c

Lower(s) == [k \in 1..Len(s) |-> LowerChar(s[k])]
Upper(s) == [k \in 1..Len(s) |-> UpperChar(s[k])]

RECURSIVE LStrip(_)
LStrip(s) == IF s /= <<>> /\ IsSpaceChar(Head(s)) THEN LStrip(Tail(s)) ELSE s

RECURSIVE RStrip(_)
RStrip(s) ==
  IF s /= <<>> /\ IsSpaceChar(s[Len(s)]) THEN RStrip(SubSeq(s, 1, Len(s) - 1)) ELSE s

Strip(s) == RStrip(LStrip(s))

\* s.replace(old, new) for a one-character old and a new of length 0 or 1
RECURSIVE Replace(_, _, _)
Replace(s, old, new) ==
  IF s = <<>> THEN <<>>
  ELSE (IF Head(s) = old THEN new ELSE <<Head(s)>>) \o Replace(Tail(s), old, new)

\* sub in s
Contains(s, sub) ==
  \E p \in 1..(Len(s) - Len(sub) + 1) : SubSeq(s, p, p + Len(sub) - 1) = sub

CountChar(s, c) == Cardinality({k \in 1..Len(s) : s[k] = c})

RECURSIVE NatToStr(_)
NatToStr(n) ==
  IF n < 10 THEN <<Digits[n + 1]>> ELSE NatToStr(n \div 10) \o <<Digits[(n % 10) + 1]>>

RECURSIVE StrToNat(_)
StrToNat(s) ==
  IF s = <<>> THEN 0 ELSE StrToNat(SubSeq(s, 1, Len(s) - 1)) * 10 + DigitVal(s[Len(s)])

\* the digits of n, zero-padded on the left to at least w characters
RECURSIVE ZeroPad(_, _)
ZeroPad(s, w) == IF Len(s) >= w THEN s ELSE ZeroPad(<<"0">> \o s, w)

(***************************************************************************)
(* float(s) followed by f"{num:.2f}".                                      *)
(***************************************************************************)
\* float() accepts digits with at most one point and at least one digit
\* (signs, exponents, inf/nan and underscores are not characters of the
\* inputs drawn here)
FloatParses(s) ==
  /\ \A k \in 1..Len(s) : IsDecimalChar(s[k]) \/ s[k] = "."
  /\ CountChar(s, ".") <= 1
  /\ \E k \in 1..Len(s) : IsDecimalChar(s[k])

PointPos(s) == IF CountChar(s, ".") = 0 THEN Len(s) + 1 ELSE CHOOSE k \in 1..Len(s) : s[k] = "."

\* f"{float(s):.2f}" for a string float() accepts: the value in hundredths,
\* rounded to nearest on the third decimal.  An exact decimal tie (third
\* decimal 5, nothing after it) is decided by the binary value of the double;
\* none of the inputs drawn below is such a tie.
FormatFloat2(s) ==
  LET p      == PointPos(s)
      ip     == SubSeq(s, 1, p - 1)
      fp     == SubSeq(s, p + 1, Len(s))
      fp3    == SubSeq(fp \o <<"0", "0", "0">>, 1, 3)
      cents  == StrToNat(ip) * 100 + StrToNat(SubSeq(fp3, 1, 2))
                  + (IF DigitVal(fp3[3]) >= 5 THEN 1 ELSE 0)
  IN  NatToStr(cents \div 100) \o <<".">> \o ZeroPad(NatToStr(cents % 100), 2)

(***************************************************************************)
(* normalize_amount, applied to the str() of its argument.                 *)
(***************************************************************************)
normalize_amount_str(val) ==
  LET s0 == Strip(val)
      s1 == Replace(s0, " ", <<>>)
      s2 == Replace(Replace(s1, ".", <<>>), ",", <<".">>)
  IN  IF s0 = <<>> THEN None
      ELSE IF CountChar(s1, ",") > 0 \/ CountChar(s1, ".") > 0
        THEN (IF FloatParses(s2) THEN FormatFloat2(s2) ELSE None)
      ELSE IF s1 /= <<>> /\ \A k \in 1..Len(s1) : IsDigitChar(s1[k])
        THEN (IF ~FloatParses(s1) THEN Raised
              ELSE IF Len(s1) <= 2 THEN FormatFloat2(s1)
              ELSE FormatFloat2(SubSeq(s1, 1, Len(s1) - 2) \o <<".">>
                                  \o SubSeq(s1, Len(s1) - 1, Len(s1))))
      ELSE None

\* str(val) for the values the pipeline converts: a str is itself, None is
\* "None", an int its decimal digits (lists are never converted: only the
\* line-item field holds one)
PyStr(v) ==
  IF v = None THEN <<"N", "o", "n", "e">>
  ELSE IF v /= <<>> /\ Head(v) = "int" THEN Tail(v)
  ELSE v

normalize_amount(val) == IF val = None THEN None ELSE normalize_amount_str(PyStr(val))

(***************************************************************************)
(* Inputs of the normalizers.                                              *)
(***************************************************************************)
MaxAmountLen == 4

\* no digit 5, so that no drawn string is an exact rounding tie
AmountAlphabet == {"0", "1", "6", ".", ",", " ", "x"}

RECURSIVE StringsUpTo(_, _)
StringsUpTo(alphabet, n) ==
  IF n = 0 THEN {<<>>}
  ELSE LET shorter == StringsUpTo(alphabet, n - 1)
       IN  shorter \cup {Append(s, c) : s \in {t \in shorter : Len(t) = n - 1}, c \in alphabet}

AmountExamples ==
  { <<"1", ".", "2", "3", "4", ",", "5", "6">>,
    <<"1", ",", "2", "3", "4", ".", "5", "6">>,
    <<"4", "6", "9", "9", "4">>,
    <<"5">>,
    <<"4", "6", "9", ",", "9", "4">>,
    <<"4", "6", "9", ".", "9", "4">>,
    <<"²">>,
    <<"int", "1", "0", "0", "0", "0", "0">>,
    None }

AmountInputs == StringsUpTo(AmountAlphabet, MaxAmountLen) \cup AmountExamples

(***************************************************************************)
(* The normalizers applied to one drawn input.  The variables of the       *)
(* pipeline keep their idle values.                                        *)
(***************************************************************************)
NoDoc == [empty |-> TRUE]

pipeline_vars == <<use_ai, use_ocr_fallback, ocr_ready, uploaded_files, doc_index, text,
                   header_supplier, regex_data, ai_data, extracted, results_list,
                   native_text, ocr_text, response, requests_sent>>

PipelineIdle ==
  /\ use_ai = FALSE
  /\ use_ocr_fallback = FALSE
  /\ ocr_ready = FALSE
  /\ uploaded_files = <<>>
  /\ doc_index = 0
  /\ text = NoDoc
  /\ header_supplier = None
  /\ regex_data = NoDoc
  /\ ai_data = NoDoc
  /\ extracted = NoDoc
  /\ results_list = <<>>
  /\ native_text = NoDoc
  /\ ocr_text = NoDoc
  /\ response = NoDoc
  /\ requests_sent = 0

InitAmount ==
  /\ pc = "input"
  /\ \E v \in AmountInputs : call = [fn |-> "normalize_amount", arg |-> v, currency |-> None]
  /\ ret = None
  /\ PipelineIdle

CallNormalizeAmount ==
  /\ pc = "input"
  /\ call.fn = "normalize_amount"
  /\ ret' = normalize_amount(call.arg)
  /\ pc' = "returned"
  /\ UNCHANGED <<call, pipeline_vars>>

NextAmount == CallNormalizeAmount

SpecAmount == InitAmount /\ [][NextAmount]_vars

(***************************************************************************)
(* The disambiguation policy the documentation states for amounts.         *)
(***************************************************************************)
IsSeparator(c) == c \in {".", ","}

\* digits and separators only, at least one digit
AmountShaped(s) ==
  /\ s /= <<>>
  /\ Head(s) \notin {"None", "int", "Raised"}
  /\ \A k \in 1..Len(s) : IsDecimalChar(s[k]) \/ IsSeparator(s[k])
  /\ \E k \in 1..Len(s) : IsDecimalChar(s[k])

RightmostSeparator(s) ==
  CHOOSE k \in 1..Len(s) : IsSeparator(s[k]) /\ \A j \in (k + 1)..Len(s) : ~IsSeparator(s[j])

PolicyAmount(s) ==
  IF \E k \in 1..Len(s) : IsSeparator(s[k])
    THEN LET r  == RightmostSeparator(s)
             ip == Replace(Replace(SubSeq(s, 1, r - 1), ".", <<>>), ",", <<>>)
         IN  FormatFloat2(ip \o <<".">> \o SubSeq(s, r + 1, Len(s)))
  ELSE IF Len(s) > 2
    THEN FormatFloat2(SubSeq(s, 1, Len(s) - 2) \o <<".">> \o SubSeq(s, Len(s) - 1, Len(s)))
  ELSE FormatFloat2(s)

\* C8: normalize_amount agrees with the stated policy on every amount-shaped
\* input: the rightmost separator is the decimal point and the others are
\* grouping; pure digits longer than 2 end in cents; two decimals always.
C8_AgreesWithPolicy ==
  (pc = "returned" /\ call.fn = "normalize_amount" /\ AmountShaped(call.arg))
    => ret = PolicyAmount(call.arg)

(***************************************************************************)
(* datetime.strptime / strftime for the formats the code lists.            *)
(***************************************************************************)
\* the fields of s between occurrences of the one-character separator sep
RECURSIVE Split(_, _)
Split(s, sep) ==
  IF CountChar(s, sep) = 0 THEN <<s>>
  ELSE LET p == CHOOSE k \in 1..Len(s) : s[k] = sep /\ \A j \in 1..(k - 1) : s[j] /= sep
       IN  <<SubSeq(s, 1, p - 1)>> \o Split(SubSeq(s, p + 1, Len(s)), sep)

AllDecimal(f) == \A k \in 1..Len(f) : IsDecimalChar(f[k])

\* %d: 3[0-1] | [1-2]\d | 0[1-9] | [1-9] | " "[1-9]
DayField(f) ==
  \/ Len(f) \in {1, 2} /\ AllDecimal(f) /\ StrToNat(f) \in 1..31
  \/ Len(f) = 2 /\ f[1] = " " /\ IsDecimalChar(f[2]) /\ f[2] /= "0"

DayValue(f) == IF f[1] = " " THEN DigitVal(f[2]) ELSE StrToNat(f)

\* %m: 1[0-2] | 0[1-9] | [1-9]
MonthField(f) == Len(f) \in {1, 2} /\ AllDecimal(f) /\ StrToNat(f) \in 1..12

\* %Y is four digits, %y two
YearField(f, ylen) == Len(f) = ylen /\ AllDecimal(f)

\* %y: 00..68 are 2000..2068, 69..99 are 1969..1999
YearValue(f, ylen) ==
  IF ylen = 4 THEN StrToNat(f)
  ELSE IF StrToNat(f) <= 68 THEN 2000 + StrToNat(f) ELSE 1900 + StrToNat(f)

IsLeap(y) == y % 4 = 0 /\ (y % 100 /= 0 \/ y % 400 = 0)

DaysInMonth(y, m) ==
  IF m = 2 THEN (IF IsLeap(y) THEN 29 ELSE 28)
  ELSE IF m \in {4, 6, 9, 11} THEN 30 ELSE 31

\* a format is its separator, its field order and the width of its year
FmtDMY(sep, ylen) == [sep |-> sep, ymd |-> FALSE, ylen |-> ylen]
FmtYMD(sep) == [sep |-> sep, ymd |-> TRUE, ylen |-> 4]

NoDate == [y |-> 0, m |-> 0, d |-> 0]

\* datetime.strptime(s, fmt): the date, or NoDate where it raises ValueError
strptime(s, fmt) ==
  LET f  == Split(s, fmt.sep)
      fy == IF fmt.ymd THEN f[1] ELSE f[3]
      fd == IF fmt.ymd THEN f[3] ELSE f[1]
  IN  IF Len(f) /= 3 THEN NoDate
      ELSE IF ~(DayField(fd) /\ MonthField(f[2]) /\ YearField(fy, fmt.ylen)) THEN NoDate
      ELSE LET y == YearValue(fy, fmt.ylen)
               m == StrToNat(f[2])
               d == DayValue(fd)
           IN  IF y >= 1 /\ d <= DaysInMonth(y, m) THEN [y |-> y, m |-> m, d |-> d] ELSE NoDate

\* dt.strftime("%Y-%m-%d"), years of four digits
strftime_iso(dt) ==
  ZeroPad(NatToStr(dt.y), 4) \o <<"-">> \o ZeroPad(NatToStr(dt.m), 2)
    \o <<"-">> \o ZeroPad(NatToStr(dt.d), 2)

\* dt.strftime("%d/%m/%Y")
strftime_portal(dt) ==
  ZeroPad(NatToStr(dt.d), 2) \o <<"/">> \o ZeroPad(NatToStr(dt.m), 2)
    \o <<"/">> \o ZeroPad(NatToStr(dt.y), 4)

\* a format list whose last entry repeats DD-MM-YYYY instead of DD-MM-YY
normalize_date_formats_no_short_dash ==
  <<FmtDMY("/", 4), FmtDMY("-", 4), FmtYMD("-"), FmtDMY("/", 2), FmtDMY("-", 4)>>

normalize_date_formats ==
  <<FmtDMY("/", 4), FmtDMY("-", 4), FmtYMD("-"), FmtDMY("/", 2), FmtDMY("-", 2)>>

portal_date_formats == <<FmtYMD("-"), FmtDMY("/", 4), FmtDMY("-", 4)>>

\* the loop over formats: the first that parses wins
RECURSIVE FirstParse(_, _, _)
FirstParse(s, formats, k) ==
  IF k > Len(formats) THEN NoDate
  ELSE IF strptime(s, formats[k]) /= NoDate THEN strptime(s, formats[k])
  ELSE FirstParse(s, formats, k + 1)

normalize_date(date_str) ==
  IF date_str = None \/ date_str = <<>> THEN None
  ELSE LET s  == Strip(date_str)
           dt == FirstParse(s, normalize_date_formats, 1)
       IN  IF dt /= NoDate THEN strftime_iso(dt) ELSE s

portal_date_format(date_str) ==
  IF date_str = None \/ date_str = <<>> THEN None
  ELSE LET s  == Strip(date_str)
           dt == FirstParse(s, portal_date_formats, 1)
       IN  IF dt /= NoDate THEN strftime_portal(dt) ELSE s

(***************************************************************************)
(* normalize_date applied to one drawn input.                              *)
(***************************************************************************)
\* every four-digit field is a year of four significant digits: strftime
\* pads a shorter year differently from one C library to another
DateFields ==
  { <<"5">>, <<"0", "5">>, <<" ", "5">>, <<"2">>, <<"0", "2">>, <<"1", "3">>,
    <<"2", "9">>, <<"3", "1">>, <<"0", "0">>, <<"2", "4">>, <<"6", "9">>,
    <<"2", "0", "2", "4">>, <<"2", "0", "2", "3">> }

DateSeparators == {"/", "-"}

Padding == {<<>>, <<" ">>}

DateLike ==
  { l \o a \o <<s1>> \o b \o <<s2>> \o c \o r :
      l \in Padding, r \in Padding, s1 \in DateSeparators, s2 \in DateSeparators,
      a \in DateFields, b \in DateFields, c \in DateFields }

NotADate == <<"n", "o", "t", "-", "a", "-", "d", "a", "t", "e">>

DateInputs ==
  DateLike \cup { <<>>, <<" ">>, NotADate, <<" ">> \o NotADate,
                  <<"0", "5", "/", "0", "3", "/", "2", "0", "2", "4">>,
                  <<" ", "0", "5", "-", "0", "3", "-", "2", "4">>,
                  <<"0", "5", "/", "0", "3", "/", "2", "0", "2", "4", "x">>,
                  <<"2", "0", "2", "4", "/", "0", "3", "/", "0", "5">> }

InitDate ==
  /\ pc = "input"
  /\ \E v \in DateInputs : call = [fn |-> "normalize_date", arg |-> v, currency |-> None]
  /\ ret = None
  /\ PipelineIdle

CallNormalizeDate ==
  /\ pc = "input"
  /\ call.fn = "normalize_date"
  /\ ret' = normalize_date(call.arg)
  /\ pc' = "returned"
  /\ UNCHANGED <<call, pipeline_vars>>

NextDate == CallNormalizeDate

SpecDate == InitDate /\ [][NextDate]_vars

(***************************************************************************)
(* localize_amount_eur.                                                    *)
(***************************************************************************)
EUR == <<"E", "U", "R">>
EURO == <<"E", "U", "R", "O">>
EuroSign == <<"€">>

\* the formatter without the upper-casing of the currency
localize_amount_eur_case_sensitive(amount, currency) ==
  IF amount = None THEN None
  ELSE LET s    == Strip(PyStr(amount))
           curr == IF currency = None THEN <<>> ELSE currency
       IN  IF s = <<>> THEN None
           ELSE IF Contains(curr, EUR) \/ Contains(curr, EURO) \/ Contains(curr, EuroSign)
             THEN Replace(s, ".", <<",">>)
           ELSE s

localize_amount_eur(amount, currency) ==
  IF amount = None THEN None
  ELSE LET s    == Strip(PyStr(amount))
           curr == Upper(IF currency = None THEN <<>> ELSE currency)
       IN  IF s = <<>> THEN None
           ELSE IF Contains(curr, EUR) \/ Contains(curr, EURO) \/ Contains(curr, EuroSign)
             THEN Replace(s, ".", <<",">>)
           ELSE s

(***************************************************************************)
(* Regular expressions of the customer parser and of the merge.            *)
(***************************************************************************)
\* re.search(r"\bw\b", s) for a w that starts and ends with a word character
WordMatch(s, w) ==
  \E p \in 1..(Len(s) - Len(w) + 1) :
    /\ SubSeq(s, p, p + Len(w) - 1) = w
    /\ (p = 1 \/ ~IsWordChar(s[p - 1]))
    /\ (p + Len(w) - 1 = Len(s) \/ ~IsWordChar(s[p + Len(w)]))

\* re.search(r"\b\d{5}\b", s)
FiveDigitWord(s) ==
  \E p \in 1..(Len(s) - 4) :
    /\ \A k \in p..(p + 4) : IsDecimalChar(s[k])
    /\ (p = 1 \/ ~IsWordChar(s[p - 1]))
    /\ (p + 4 = Len(s) \/ ~IsWordChar(s[p + 5]))

Fattura == <<"f", "a", "t", "t", "u", "r", "a">>
Invoice == <<"i", "n", "v", "o", "i", "c", "e">>

\* re.search(r"\bfattura\b|\binvoice\b", s.lower())
MislabelGuard(s) == WordMatch(Lower(s), Fattura) \/ WordMatch(Lower(s), Invoice)

(***************************************************************************)
(* parse_cliente_from_lines, on the lines that follow the customer label   *)
(* (the document has at most one label line).                              *)
(***************************************************************************)
AddressWords ==
  { <<"v", "i", "a">>, <<"v", "i", "a", "l", "e">>, <<"p", "i", "a", "z", "z", "a">>,
    <<"c", "o", "r", "s", "o">>, <<"c", ".", "s", "o">>, <<"s", "t", "r", "a", "d", "a">>,
    <<"v", "i", "c", "o">>, <<"l", "a", "r", "g", "o">> }

looks_like_address(s) ==
  (\E w \in AddressWords : WordMatch(Lower(s), w)) \/ FiveDigitWord(Lower(s))

is_mostly_digits(s) ==
  LET digits == Cardinality({k \in 1..Len(s) : IsDecimalChar(s[k])})
  IN  digits >= 5 /\ 10 * digits >= 6 * Len(Strip(s))

\* (partita\siva|p\.iva|codice\sfiscale|vat|cf\b|fattura|invoice)
FiscalKeyword(lc) ==
  \/ \E ws \in {" ", "\t"} :
        \/ Contains(lc, <<"p", "a", "r", "t", "i", "t", "a", ws, "i", "v", "a">>)
        \/ Contains(lc, <<"c", "o", "d", "i", "c", "e", ws, "f", "i", "s", "c", "a", "l", "e">>)
  \/ Contains(lc, <<"p", ".", "i", "v", "a">>)
  \/ Contains(lc, <<"v", "a", "t">>)
  \/ \E p \in 1..(Len(lc) - 1) :
        lc[p] = "c" /\ lc[p + 1] = "f" /\ (p + 1 = Len(lc) \/ ~IsWordChar(lc[p + 2]))
  \/ Contains(lc, Fattura)
  \/ Contains(lc, Invoice)

\* the scan of the block: codice is the first mostly-digit line, nome the
\* first line that is neither mostly digits nor an address
RECURSIVE ScanCliente(_, _, _)
ScanCliente(block, j, codice) ==
  IF j > Len(block) \/ j > 6 THEN [nome |-> None, codice |-> codice]
  ELSE LET candidate == Strip(block[j])
       IN  IF candidate = <<>> THEN ScanCliente(block, j + 1, codice)
           ELSE IF FiscalKeyword(Lower(candidate)) THEN ScanCliente(block, j + 1, codice)
           ELSE IF codice = None /\ is_mostly_digits(candidate)
             THEN ScanCliente(block, j + 1, candidate)
           ELSE IF ~is_mostly_digits(candidate) /\ ~looks_like_address(candidate)
                   /\ Len(candidate) > 2
             THEN [nome |-> candidate, codice |-> codice]
           ELSE ScanCliente(block, j + 1, codice)

parse_cliente_from_lines(has_label, block) ==
  IF ~has_label THEN None
  ELSE LET found == ScanCliente(block, 1, None)
       IN  IF found.nome /= None THEN found.nome
           ELSE IF found.codice /= None /\ ~looks_like_address(found.codice) THEN found.codice
           ELSE None

(***************************************************************************)
(* analyze_invoice_regex.  The text of a document is the record of what    *)
(* the searches of the function find in it:                                *)
(*   nonempty        the text is not the empty string                      *)
(*   short           its stripped length is under 50 characters            *)
(*   has_label, cliente_block   the customer label and the lines after it  *)
(*   dates, amounts, inv_nums, imponibili, iva_matches   re.findall results*)
(*   has_eur         the currency search succeeds                          *)
(*   articolo_lines  the lines kept as line items                          *)
(*   fornitore_line  the first of the first 30 lines that passes the       *)
(*                   blacklist and carries a legal-entity suffix, or None  *)
(***************************************************************************)
\* a Python list of opaque items
PyList(items) == <<"list">> \o items
IsPyList(v) == v /= <<>> /\ Head(v) = "list"

\* the initial findings with a zero total in place of None
EmptyFindings_zero_total ==
  [ Fornitore |-> None, Cliente |-> None, Data |-> None, NumeroFattura |-> None,
    ImportoTotale |-> <<"0", ".", "0", "0">>, Valuta |-> None, ImponibileIVA |-> None,
    CodiceIVA |-> None, ElencoArticoliRegex |-> PyList(<<>>) ]

EmptyFindings ==
  [ Fornitore |-> None, Cliente |-> None, Data |-> None, NumeroFattura |-> None,
    ImportoTotale |-> None, Valuta |-> None, ImponibileIVA |-> None,
    CodiceIVA |-> None, ElencoArticoliRegex |-> PyList(<<>>) ]

\* the choice among the captured invoice-number candidates
RECURSIVE ChooseInvoiceNumber(_, _, _)
ChooseInvoiceNumber(inv_nums, k, chosen_num) ==
  IF k > Len(inv_nums) THEN chosen_num
  ELSE LET c      == Strip(inv_nums[k])
           digits == Cardinality({j \in 1..Len(c) : IsDigitChar(c[j])})
       IN  IF digits = 0 THEN ChooseInvoiceNumber(inv_nums, k + 1, chosen_num)
           ELSE IF digits >= 8 /\ digits = Len(c)
             THEN ChooseInvoiceNumber(inv_nums, k + 1, chosen_num)
           ELSE IF CountChar(c, "/") > 0 \/ CountChar(c, "-") > 0 THEN c
           ELSE IF chosen_num = None THEN ChooseInvoiceNumber(inv_nums, k + 1, c)
           ELSE ChooseInvoiceNumber(inv_nums, k + 1, chosen_num)

\* the supplier: the line heuristic, else the header OCR name, dropped when
\* it equals the parsed customer ignoring case
ResolveFornitore(fornitore_line, hdr_supplier, cliente) ==
  LET candidato == IF fornitore_line = None /\ hdr_supplier /= None /\ hdr_supplier /= <<>>
                     THEN hdr_supplier ELSE fornitore_line
  IN  IF candidato /= None /\ candidato /= <<>> /\ cliente /= None /\ cliente /= <<>>
         /\ Lower(Strip(candidato)) = Lower(Strip(cliente))
        THEN None
      ELSE candidato

analyze_invoice_regex(txt, hdr_supplier) ==
  IF ~txt.nonempty THEN EmptyFindings
  ELSE LET cliente    == parse_cliente_from_lines(txt.has_label, txt.cliente_block)
           chosen_num == ChooseInvoiceNumber(txt.inv_nums, 1, None)
       IN  [ Fornitore |-> ResolveFornitore(txt.fornitore_line, hdr_supplier, cliente),
             Cliente |-> IF cliente /= None /\ cliente /= <<>> /\ ~MislabelGuard(cliente)
                           THEN cliente ELSE None,
             Data |-> IF txt.dates /= <<>> THEN normalize_date(txt.dates[1]) ELSE None,
             NumeroFattura |-> IF chosen_num /= None /\ chosen_num /= <<>>
                                 THEN chosen_num ELSE None,
             ImportoTotale |-> IF txt.amounts /= <<>>
                                 THEN normalize_amount(txt.amounts[Len(txt.amounts)])
                                 ELSE None,
             Valuta |-> IF txt.has_eur THEN EUR ELSE None,
             ImponibileIVA |-> IF txt.imponibili /= <<>>
                                 THEN normalize_amount(txt.imponibili[Len(txt.imponibili)])
                                 ELSE None,
             CodiceIVA |-> IF txt.iva_matches /= <<>>
                             THEN <<"I", "V", "A", " ">>
                                    \o txt.iva_matches[Len(txt.iva_matches)] \o <<"%">>
                             ELSE None,
             ElencoArticoliRegex |-> PyList(txt.articolo_lines) ]

(***************************************************************************)
(* The model output ai_data: what json.loads returned, or None.  A dict is *)
(* its set of keys and their values (d is None outside keys); any other    *)
(* JSON value is v.                                                        *)
(***************************************************************************)
AiKeys ==
  {"fornitore", "cliente", "data_fattura", "numero_fattura", "importo_totale", "valuta",
   "elenco_articoli"}

PyInt(digits) == <<"int">> \o digits

\* bool(v)
Truthy(v) == v /= None /\ v /= <<>> /\ v /= PyInt(<<"0">>) /\ v /= PyList(<<>>)

AiNone == [isdict |-> FALSE, v |-> None, keys |-> {}, d |-> [k \in AiKeys |-> None]]
AiValue(v) == [isdict |-> FALSE, v |-> v, keys |-> {}, d |-> [k \in AiKeys |-> None]]
AiDict(keys, d) ==
  [isdict |-> TRUE, v |-> None, keys |-> keys, d |-> [k \in AiKeys |-> IF k \in keys THEN d[k] ELSE None]]

\* bool(ai_data): an empty dict is falsy
AiTruthy(ai) == IF ai.isdict THEN ai.keys /= {} ELSE Truthy(ai.v)

\* ai_data.get(key)
AiGet(ai, key) == IF key \in ai.keys THEN ai.d[key] ELSE None

(***************************************************************************)
(* merge_ai_and_regex, field by field.                                     *)
(***************************************************************************)
\* .get on a truthy value that is not a dict raises AttributeError, and the
\* ValueError of normalize_amount is not caught
MergeRaises(ai, rx) ==
  AiTruthy(ai) /\ (~ai.isdict \/ normalize_amount(AiGet(ai, "importo_totale")) = Raised)

merge_cliente(ai, rx) ==
  LET regex_cliente == rx.Cliente
      ai_cliente    == IF AiTruthy(ai) THEN AiGet(ai, "cliente") ELSE None
  IN  IF Truthy(regex_cliente) /\ ~MislabelGuard(regex_cliente) THEN regex_cliente
      ELSE IF Truthy(ai_cliente) /\ ~MislabelGuard(PyStr(ai_cliente)) THEN ai_cliente
      ELSE None

\* a supplier completed from the model when the regex findings have none
merge_fornitore_model_fallback(ai, rx) ==
  IF Truthy(rx.Fornitore) THEN rx.Fornitore
  ELSE IF AiTruthy(ai) /\ Truthy(AiGet(ai, "fornitore")) THEN AiGet(ai, "fornitore")
  ELSE rx.Fornitore

merge_fornitore(ai, rx) == rx.Fornitore

\* the model date taken as it is, without normalize_date
merge_data_fattura_unnormalized(ai, rx) ==
  IF Truthy(rx.Data) THEN rx.Data
  ELSE IF AiTruthy(ai) /\ Truthy(AiGet(ai, "data_fattura"))
    THEN PyStr(AiGet(ai, "data_fattura"))
  ELSE None

merge_data_fattura(ai, rx) ==
  IF Truthy(rx.Data) THEN rx.Data
  ELSE IF AiTruthy(ai) /\ Truthy(AiGet(ai, "data_fattura"))
    THEN normalize_date(PyStr(AiGet(ai, "data_fattura")))
  ELSE None

merge_numero_fattura(ai, rx) == IF Truthy(rx.NumeroFattura) THEN rx.NumeroFattura ELSE None

\* the regex total normalized a second time
merge_importo_totale_raw_renormalized(ai, rx) ==
  LET regex_amt == rx.ImportoTotale
      ai_amt    == IF AiTruthy(ai) THEN normalize_amount(AiGet(ai, "importo_totale")) ELSE None
  IN  IF Truthy(regex_amt) THEN normalize_amount(regex_amt)
      ELSE IF Truthy(ai_amt) THEN ai_amt
      ELSE None

merge_importo_totale_raw(ai, rx) ==
  LET regex_amt == rx.ImportoTotale
      ai_amt    == IF AiTruthy(ai) THEN normalize_amount(AiGet(ai, "importo_totale")) ELSE None
  IN  IF Truthy(regex_amt) THEN regex_amt
      ELSE IF Truthy(ai_amt) THEN ai_amt
      ELSE None

\* the currency without the upper-casing
merge_valuta_case_sensitive(ai, rx) ==
  LET val == IF AiTruthy(ai) /\ Truthy(AiGet(ai, "valuta"))
               THEN Strip(PyStr(AiGet(ai, "valuta")))
             ELSE IF Truthy(rx.Valuta) THEN Strip(PyStr(rx.Valuta))
             ELSE None
  IN  IF ~Truthy(val) THEN None
      ELSE IF Contains(val, EuroSign) \/ Contains(val, EUR) \/ Contains(val, EURO) THEN EUR
      ELSE val

merge_valuta(ai, rx) ==
  LET val == IF AiTruthy(ai) /\ Truthy(AiGet(ai, "valuta"))
               THEN Upper(Strip(PyStr(AiGet(ai, "valuta"))))
             ELSE IF Truthy(rx.Valuta) THEN Upper(Strip(PyStr(rx.Valuta)))
             ELSE None
  IN  IF ~Truthy(val) THEN None
      ELSE IF Contains(val, EuroSign) \/ Contains(val, EUR) \/ Contains(val, EURO) THEN EUR
      ELSE val

\* the line items without the test that the model's value is a list
merge_elenco_articoli_any_value(ai, rx) ==
  IF AiTruthy(ai) /\ Truthy(AiGet(ai, "elenco_articoli"))
    THEN AiGet(ai, "elenco_articoli")
  ELSE IF Truthy(rx.ElencoArticoliRegex) THEN rx.ElencoArticoliRegex
  ELSE PyList(<<>>)

merge_elenco_articoli(ai, rx) ==
  IF AiTruthy(ai) /\ IsPyList(AiGet(ai, "elenco_articoli")) /\ Truthy(AiGet(ai, "elenco_articoli"))
    THEN AiGet(ai, "elenco_articoli")
  ELSE IF Truthy(rx.ElencoArticoliRegex) THEN rx.ElencoArticoliRegex
  ELSE PyList(<<>>)

\* the record merge_ai_and_regex returns when it does not raise
merge_ai_and_regex(ai, rx) ==
  LET data_fattura == merge_data_fattura(ai, rx)
      raw          == merge_importo_totale_raw(ai, rx)
      valuta       == merge_valuta(ai, rx)
  IN  [ fornitore |-> merge_fornitore(ai, rx),
        cliente |-> merge_cliente(ai, rx),
        data_fattura |-> data_fattura,
        data_documento_portale |->
          IF Truthy(data_fattura) THEN portal_date_format(data_fattura) ELSE None,
        numero_fattura |-> merge_numero_fattura(ai, rx),
        importo_totale |-> IF raw /= None THEN localize_amount_eur(raw, valuta) ELSE None,
        importo_totale_raw |-> raw,
        valuta |-> valuta,
        imponibile_iva |->
          IF Truthy(rx.ImponibileIVA) THEN localize_amount_eur(rx.ImponibileIVA, valuta) ELSE None,
        codice_iva |-> IF Truthy(rx.CodiceIVA) THEN rx.CodiceIVA ELSE None,
        elenco_articoli |-> merge_elenco_articoli(ai, rx) ]

(***************************************************************************)
(* Inputs of the merge: documents and model outputs.                       *)
(***************************************************************************)
\* the customer label and the block under it
ClienteBlocks ==
  { [has_label |-> FALSE, block |-> <<>>],
    [has_label |-> TRUE, block |-> << <<"0", "0", "0", "0", "0", "7", "5", "9", "4", "2">>, <<"A", "C", "M", "E", " ", "S", "r", "l">>, <<"V", "i", "a", " ", "R", "o", "m", "a", " ", "1">> >>],
    [has_label |-> TRUE, block |-> << <<"F", "a", "t", "t", "u", "r", "a", " ", "n", ".", " ", "1", "2">>, <<"U", "f", "f", "i", "c", "i", "o", " ", "F", "a", "t", "t", "u", "r", "a", "z", "i", "o", "n", "e">>, <<"V", "i", "a", " ", "R", "o", "m", "a", " ", "1">> >>] }

DateMatches == { <<>>, << <<"0", "5", "/", "0", "3", "/", "2", "0", "2", "4">>, <<"0", "1", "/", "0", "1", "/", "2", "0", "2", "4">> >> }

AmountMatches == { <<>>, << <<"1", "0", "0", ",", "0", "0">> >>, << <<"9", ",", "9", "9">>, <<"1", ".", "2", "3", "4", ",", "5", "6">> >> }

\* the invoice-number candidates and the lines kept as line items
NumberAndLineMatches ==
  { [inv_nums |-> <<>>, articolo_lines |-> <<>>],
    [inv_nums |-> << <<"1", "2">>, <<"3", "6", "3", "0", "/", "8">> >>,
     articolo_lines |-> <<"Sedia 10,00">>] }

VatMatches ==
  { [imponibili |-> <<>>, iva_matches |-> <<>>],
    [imponibili |-> << <<"1", ".", "0", "0", "0", ",", "0", "0">> >>, iva_matches |-> << <<"2", "2">> >>] }

\* the line heuristic's result and the header OCR name
SupplierSources ==
  { [fornitore_line |-> None, header |-> None],
    [fornitore_line |-> <<"A", "C", "M", "E", " ", "S", "R", "L">>, header |-> None],
    [fornitore_line |-> None, header |-> <<"B", "e", "t", "a", " ", "S", ".", "p", ".", "A", ".">>] }

MakeText(cb, dm, am, nl, eur, vm, fl) ==
  [ nonempty |-> TRUE, short |-> FALSE, has_label |-> cb.has_label, cliente_block |-> cb.block,
    dates |-> dm, amounts |-> am, inv_nums |-> nl.inv_nums, has_eur |-> eur,
    imponibili |-> vm.imponibili, iva_matches |-> vm.iva_matches,
    articolo_lines |-> nl.articolo_lines, fornitore_line |-> fl ]

\* a text in which no search finds anything
BlankText ==
  MakeText([has_label |-> FALSE, block |-> <<>>], <<>>, <<>>,
           [inv_nums |-> <<>>, articolo_lines |-> <<>>], FALSE,
           [imponibili |-> <<>>, iva_matches |-> <<>>], None)

\* the empty string
NoText == [BlankText EXCEPT !.nonempty = FALSE, !.short = TRUE]

\* a document: its text and the supplier name read from its header
MergeDocuments ==
  { [text |-> MakeText(cb, dm, am, nl, eur, vm, ss.fornitore_line), header |-> ss.header] :
      cb \in ClienteBlocks, dm \in DateMatches, am \in AmountMatches,
      nl \in NumberAndLineMatches, eur \in BOOLEAN, vm \in VatMatches,
      ss \in SupplierSources }
    \cup { [text |-> NoText, header |-> None], [text |-> NoText, header |-> <<"B", "e", "t", "a", " ", "S", ".", "p", ".", "A", ".">>] }

\* values of the keys of a model answer; Missing marks a key that is not there
Missing == <<"Missing">>

AiClienteValues == { Missing, <<"R", "o", "s", "s", "i">>, <<"a", "c", "m", "e", " ", "s", "r", "l">>, <<"U", "f", "f", "i", "c", "i", "o", " ", "F", "a", "t", "t", "u", "r", "a", "z", "i", "o", "n", "e">>, <<"F", "a", "t", "t", "u", "r", "a", " ", "1", "2">> }
AiFornitoreValues == { Missing, <<"G", "a", "m", "m", "a", " ", "S", "r", "l">> }
AiDataValues == { Missing, <<"2", "0", "2", "4", "-", "0", "3", "-", "0", "5">>, <<" ", "5", "/", "3", "/", "2", "4", " ">>, <<" ", " ">> }
AiImportoValues == { Missing, PyInt(<<"1", "0", "0", "0", "0", "0">>), <<"1", "2", ",", "5">>, <<"²">> }
AiValutaValues == { Missing, <<"u", "s", "d">>, <<" ", "E", "u", "r", "o", " ">>, <<"€">>, <<" ", " ">> }
AiElencoValues == { Missing, PyList(<<"Sedia", "Tavolo">>), PyList(<<>>), <<"n", "/", "a">> }
AiNumeroValues == { Missing, <<"A", "I", "-", "7", "7">> }

MakeAiDict(fo, cl, da, nu, im, va, el) ==
  LET d == [k \in AiKeys |->
              CASE k = "fornitore" -> fo [] k = "cliente" -> cl [] k = "data_fattura" -> da
                [] k = "numero_fattura" -> nu [] k = "importo_totale" -> im
                [] k = "valuta" -> va [] k = "elenco_articoli" -> el]
  IN  AiDict({k \in AiKeys : d[k] /= Missing}, d)

\* answers that vary the keys of one group of fields, the other keys being
\* all missing or all at one fixed value
AiBaseValues ==
  { [fo |-> Missing, cl |-> Missing, da |-> Missing, nu |-> Missing, im |-> Missing,
     va |-> Missing, el |-> Missing],
    [fo |-> <<"G", "a", "m", "m", "a", " ", "S", "r", "l">>, cl |-> <<"R", "o", "s", "s", "i">>, da |-> <<"2", "0", "2", "4", "-", "0", "3", "-", "0", "5">>, nu |-> <<"A", "I", "-", "7", "7">>,
     im |-> PyInt(<<"1", "0", "0", "0", "0", "0">>), va |-> <<"u", "s", "d">>, el |-> PyList(<<"Sedia", "Tavolo">>)] }

AiDicts ==
  UNION { { MakeAiDict(fo, cl, b.da, b.nu, b.im, b.va, b.el) :
              fo \in AiFornitoreValues, cl \in AiClienteValues }
          \cup { MakeAiDict(b.fo, b.cl, da, b.nu, b.im, b.va, b.el) : da \in AiDataValues }
          \cup { MakeAiDict(b.fo, b.cl, b.da, b.nu, im, va, b.el) :
                   im \in AiImportoValues, va \in AiValutaValues }
          \cup { MakeAiDict(b.fo, b.cl, b.da, nu, b.im, b.va, el) :
                   nu \in AiNumeroValues, el \in AiElencoValues }
          : b \in AiBaseValues }

\* JSON answers that are not objects
AiNonDicts ==
  { AiValue(PyList(<<"Sedia">>)), AiValue(PyList(<<>>)), AiValue(<<"a", "b", "c">>),
    AiValue(PyInt(<<"5">>)), AiValue(PyInt(<<"0">>)) }

MergeAiOutputs == {AiNone} \cup AiDicts \cup AiNonDicts

(***************************************************************************)
(* One document through analyze_invoice_regex and merge_ai_and_regex.      *)
(***************************************************************************)
InitMerge ==
  /\ pc = "regex"
  /\ call = [fn |-> "none", arg |-> None, currency |-> None]
  /\ ret = None
  /\ use_ai = TRUE
  /\ use_ocr_fallback = FALSE
  /\ ocr_ready = FALSE
  /\ uploaded_files = <<>>
  /\ doc_index = 0
  /\ \E doc \in MergeDocuments : text = doc.text /\ header_supplier = doc.header
  /\ ai_data \in MergeAiOutputs
  /\ regex_data = NoDoc
  /\ extracted = NoDoc
  /\ results_list = <<>>
  /\ native_text = NoDoc
  /\ ocr_text = NoDoc
  /\ response = NoDoc
  /\ requests_sent = 0

RegexStep ==
  /\ pc = "regex"
  /\ regex_data' = analyze_invoice_regex(text, header_supplier)
  /\ pc' = "merge"
  /\ UNCHANGED <<call, ret, use_ai, use_ocr_fallback, ocr_ready, uploaded_files, doc_index,
                 text, header_supplier, ai_data, extracted, results_list,
                 native_text, ocr_text, response, requests_sent>>

MergeStep ==
  /\ pc = "merge"
  /\ IF MergeRaises(ai_data, regex_data)
       THEN pc' = "raised" /\ UNCHANGED extracted
       ELSE pc' = "merged" /\ extracted' = merge_ai_and_regex(ai_data, regex_data)
  /\ UNCHANGED <<call, ret, use_ai, use_ocr_fallback, ocr_ready, uploaded_files, doc_index,
                 text, header_supplier, regex_data, ai_data, results_list,
                 native_text, ocr_text, response, requests_sent>>

NextMerge == RegexStep \/ MergeStep

SpecMerge == InitMerge /\ [][NextMerge]_vars

(***************************************************************************)
(* Claims on the merge policy, over SpecMerge.                             *)
(***************************************************************************)
Merged == pc = "merged"

\* the model's value for a key, None when the answer or the key is absent
ModelValue(key) == AiGet(ai_data, key)

\* a value is present when it is neither None nor empty
Present(v) == Truthy(v)

\* C2: when the regex findings hold a total, importo_totale_raw is that value
\* exactly, whatever the model answered; otherwise it is normalize_amount of
\* the model's amount, and absent when both are absent.
C2_RegexTotalWins ==
  Merged =>
    /\ regex_data.ImportoTotale /= None
         => extracted.importo_totale_raw = regex_data.ImportoTotale
    /\ regex_data.ImportoTotale = None
         => extracted.importo_totale_raw = normalize_amount(ModelValue("importo_totale"))
    /\ (regex_data.ImportoTotale = None /\ ModelValue("importo_totale") = None)
         => extracted.importo_totale_raw = None

C2_Witness ==
  /\ Merged
  /\ regex_data.ImportoTotale = <<"1", "0", "0", ".", "0", "0">>
  /\ ModelValue("importo_totale") = PyInt(<<"1", "0", "0", "0", "0", "0">>)
  /\ normalize_amount(ModelValue("importo_totale")) = <<"1", "0", "0", "0", ".", "0", "0">>
  /\ extracted.importo_totale_raw = <<"1", "0", "0", ".", "0", "0">>

\* C3: supplier and invoice number come from the regex findings alone: they
\* equal the regex values, and merging any other model answer with the same
\* regex findings gives the same supplier and the same invoice number.
C3_SupplierAndNumberFromRegexOnly ==
  Merged =>
    /\ extracted.fornitore = regex_data.Fornitore
    /\ extracted.numero_fattura = regex_data.NumeroFattura
    /\ \A other \in MergeAiOutputs :
         ~MergeRaises(other, regex_data) =>
           /\ merge_fornitore(other, regex_data) = extracted.fornitore
           /\ merge_numero_fattura(other, regex_data) = extracted.numero_fattura

C3_Witness ==
  /\ Merged
  /\ regex_data.Fornitore = None
  /\ regex_data.NumeroFattura = None
  /\ Present(ModelValue("fornitore"))
  /\ Present(ModelValue("numero_fattura"))
  /\ extracted.fornitore = None
  /\ extracted.numero_fattura = None

\* s contains "invoice" or "fattura", ignoring case
ContainsMislabel(s) == Contains(Lower(s), Fattura) \/ Contains(Lower(s), Invoice)

\* C4: the customer is the regex customer if present and free of
\* "invoice"/"fattura", else the model's customer under the same guard, else
\* absent; so no record's customer contains "invoice" or "fattura".
C4_CustomerGuard ==
  Merged =>
    /\ extracted.cliente =
         IF Present(regex_data.Cliente) /\ ~ContainsMislabel(regex_data.Cliente)
           THEN regex_data.Cliente
         ELSE IF Present(ModelValue("cliente")) /\ ~ContainsMislabel(PyStr(ModelValue("cliente")))
           THEN ModelValue("cliente")
         ELSE None
    /\ extracted.cliente /= None => ~ContainsMislabel(PyStr(extracted.cliente))

\* s names the euro, ignoring case
NamesEuro(s) == Contains(Upper(s), EUR) \/ Contains(Upper(s), EURO) \/ Contains(s, EuroSign)

\* C5 as stated: the currency is the model's value if present, else the regex
\* EUR flag, else absent, a value naming the euro being replaced by "EUR".
C5_CurrencyAsStated ==
  Merged =>
    LET chosen == IF Present(ModelValue("valuta")) THEN PyStr(ModelValue("valuta"))
                  ELSE regex_data.Valuta
    IN  extracted.valuta =
          IF chosen = None THEN None ELSE IF NamesEuro(chosen) THEN EUR ELSE chosen

\* C5 (amended): the chosen value is the model's if present, else the regex
\* EUR flag; it is stripped and upper-cased; an empty result is absent, a
\* result naming the euro is exactly "EUR"; no record holds another spelling
\* of the euro.
C5_CurrencyCanonical ==
  Merged =>
    LET chosen == IF Present(ModelValue("valuta")) THEN PyStr(ModelValue("valuta"))
                  ELSE regex_data.Valuta
    IN  /\ extracted.valuta =
             IF chosen = None \/ Strip(chosen) = <<>> THEN None
             ELSE IF NamesEuro(chosen) THEN EUR
             ELSE Upper(Strip(chosen))
        /\ (extracted.valuta /= None /\ NamesEuro(extracted.valuta)) => extracted.valuta = EUR

C5_Witness ==
  /\ Merged
  /\ ModelValue("valuta") = <<" ", "E", "u", "r", "o", " ">>
  /\ regex_data.Valuta = None
  /\ extracted.valuta = EUR

\* C6: the line items are the model's list if the model answered and the
\* value is a non-empty list, else the regex fallback lines, else the empty
\* list; the field is never None.
C6_LineItems ==
  Merged =>
    /\ extracted.elenco_articoli =
         IF IsPyList(ModelValue("elenco_articoli")) /\ ModelValue("elenco_articoli") /= PyList(<<>>)
           THEN ModelValue("elenco_articoli")
         ELSE IF regex_data.ElencoArticoliRegex /= PyList(<<>>)
           THEN regex_data.ElencoArticoliRegex
         ELSE PyList(<<>>)
    /\ extracted.elenco_articoli /= None
    /\ IsPyList(extracted.elenco_articoli)

C6_Witness ==
  /\ Merged
  /\ ModelValue("elenco_articoli") = <<"n", "/", "a">>
  /\ regex_data.ElencoArticoliRegex = PyList(<<"Sedia 10,00">>)
  /\ extracted.elenco_articoli = PyList(<<"Sedia 10,00">>)

\* C7: the invoice date is the regex date if present, else normalize_date of
\* the model's date if present, else absent; the portal date is present
\* exactly when the invoice date is, and is then portal_date_format of it.
C7_Dates ==
  Merged =>
    /\ extracted.data_fattura =
         IF Present(regex_data.Data) THEN regex_data.Data
         ELSE IF Present(ModelValue("data_fattura"))
           THEN normalize_date(PyStr(ModelValue("data_fattura")))
         ELSE None
    /\ Present(extracted.data_documento_portale) <=> Present(extracted.data_fattura)
    /\ Present(extracted.data_fattura)
         => extracted.data_documento_portale = portal_date_format(extracted.data_fattura)
    /\ ~Present(extracted.data_fattura) => extracted.data_documento_portale = None

C7_Witness ==
  /\ Merged
  /\ regex_data.Data = None
  /\ ModelValue("data_fattura") = <<" ", "5", "/", "3", "/", "2", "4", " ">>
  /\ extracted.data_fattura = <<"2", "0", "2", "4", "-", "0", "3", "-", "0", "5">>
  /\ extracted.data_documento_portale = <<"0", "5", "/", "0", "3", "/", "2", "0", "2", "4">>

(***************************************************************************)
(* localize_amount_eur applied to one drawn amount and currency, and the   *)
(* documented example text taken through the regex findings and the merge. *)
(***************************************************************************)
DisplayAmounts == {normalize_amount(v) : v \in AmountInputs} \ {None, Raised}

DisplayCurrencies ==
  { None, <<>>, EUR, EURO, EuroSign, <<"e", "u", "r">>, <<"E", "u", "r", "o">>, <<"e", "u", "r", "o", "s">>, <<"U", "S", "D">>, <<"u", "s", "d">> }

\* the text "Totale fattura € 1.234,56": the amount search captures
\* "1.234,56", the currency search succeeds, the other searches find nothing
ExampleTotalText ==
  MakeText([has_label |-> FALSE, block |-> <<>>], <<>>, << <<"1", ".", "2", "3", "4", ",", "5", "6">> >>,
           [inv_nums |-> <<>>, articolo_lines |-> <<>>], TRUE,
           [imponibili |-> <<>>, iva_matches |-> <<>>], None)

ExampleAiOutputs ==
  { AiNone,
    MakeAiDict(Missing, <<"R", "o", "s", "s", "i">>, Missing, Missing, Missing, Missing, Missing),
    MakeAiDict(Missing, Missing, Missing, Missing, PyInt(<<"1", "0", "0", "0", "0", "0">>), <<"u", "s", "d">>, Missing) }

InitDisplay ==
  \/ /\ pc = "input"
     /\ \E a \in DisplayAmounts, c \in DisplayCurrencies :
          call = [fn |-> "localize_amount_eur", arg |-> a, currency |-> c]
     /\ ret = None
     /\ PipelineIdle
  \/ /\ pc = "regex"
     /\ call = [fn |-> "none", arg |-> None, currency |-> None]
     /\ ret = None
     /\ use_ai = TRUE
     /\ use_ocr_fallback = FALSE
     /\ ocr_ready = FALSE
     /\ uploaded_files = <<>>
     /\ doc_index = 0
     /\ text = ExampleTotalText
     /\ header_supplier = None
     /\ ai_data \in ExampleAiOutputs
     /\ regex_data = NoDoc
     /\ extracted = NoDoc
     /\ results_list = <<>>
     /\ native_text = NoDoc
     /\ ocr_text = NoDoc
     /\ response = NoDoc
     /\ requests_sent = 0

CallLocalizeAmount ==
  /\ pc = "input"
  /\ call.fn = "localize_amount_eur"
  /\ ret' = localize_amount_eur(call.arg, call.currency)
  /\ pc' = "returned"
  /\ UNCHANGED <<call, pipeline_vars>>

NextDisplay == CallLocalizeAmount \/ RegexStep \/ MergeStep

SpecDisplay == InitDisplay /\ [][NextDisplay]_vars

\* thousands grouped by points, as in "1.234"
RECURSIVE GroupThousands(_)
GroupThousands(ip) ==
  IF Len(ip) <= 3 THEN ip
  ELSE GroupThousands(SubSeq(ip, 1, Len(ip) - 3)) \o <<".">> \o SubSeq(ip, Len(ip) - 2, Len(ip))

\* the locale form of a normalized amount: grouped thousands, decimal comma
LocaleDisplay(amount) ==
  LET p == PointPos(amount)
  IN  GroupThousands(SubSeq(amount, 1, p - 1)) \o <<",">> \o SubSeq(amount, p + 1, Len(amount))

\* the normalized amount with its decimal point turned into a comma
CommaDecimal(amount) ==
  LET p == PointPos(amount)
  IN  SubSeq(amount, 1, p - 1) \o <<",">> \o SubSeq(amount, p + 1, Len(amount))

Localized == pc = "returned" /\ call.fn = "localize_amount_eur"

ExampleMerged == pc = "merged" /\ text = ExampleTotalText

\* C9 as stated: for a currency naming the euro the amount is shown in locale
\* form ("1234.56" gives "1.234,56"), for any other currency unchanged; the
\* example text yields total "1234.56" with display "1.234,56".
C9_DisplayAsStated ==
  /\ Localized =>
       ret = IF call.currency /= None /\ NamesEuro(call.currency)
               THEN LocaleDisplay(call.arg) ELSE call.arg
  /\ (ExampleMerged /\ ModelValue("valuta") = None) =>
       /\ extracted.importo_totale_raw = <<"1", "2", "3", "4", ".", "5", "6">>
       /\ extracted.importo_totale = <<"1", ".", "2", "3", "4", ",", "5", "6">>

\* C9 (amended): for a currency naming the euro the decimal point becomes a
\* comma and no thousands grouping is added ("1234.56" with "EUR" gives
\* "1234,56"), for any other currency the amount is unchanged ("1234.56" with
\* "USD" gives "1234.56"); the example text, without a model currency, yields
\* total "1234.56" with display "1234,56".
C9_DisplayCommaDecimal ==
  /\ Localized =>
       /\ ret = IF call.currency /= None /\ NamesEuro(call.currency)
                  THEN CommaDecimal(call.arg) ELSE call.arg
       /\ (call.arg = <<"1", "2", "3", "4", ".", "5", "6">> /\ call.currency = EUR) => ret = <<"1", "2", "3", "4", ",", "5", "6">>
       /\ (call.arg = <<"1", "2", "3", "4", ".", "5", "6">> /\ call.currency = <<"U", "S", "D">>) => ret = <<"1", "2", "3", "4", ".", "5", "6">>
  /\ (ExampleMerged /\ ModelValue("valuta") = None) =>
       /\ extracted.importo_totale_raw = <<"1", "2", "3", "4", ".", "5", "6">>
       /\ extracted.importo_totale = <<"1", "2", "3", "4", ",", "5", "6">>

C9_Witness ==
  /\ Localized
  /\ call.arg = <<"1", "2", "3", "4", ".", "5", "6">>
  /\ call.currency = <<"e", "u", "r">>
  /\ ret = <<"1", "2", "3", "4", ",", "5", "6">>

(***************************************************************************)
(* Claims on normalize_date, over SpecDate.                                *)
(***************************************************************************)
\* DD/MM/YYYY, DD-MM-YYYY, YYYY-MM-DD, DD/MM/YY, DD-MM-YY
StatedDateFormats ==
  << [sep |-> "/", ymd |-> FALSE, ylen |-> 4], [sep |-> "-", ymd |-> FALSE, ylen |-> 4],
     [sep |-> "-", ymd |-> TRUE, ylen |-> 4], [sep |-> "/", ymd |-> FALSE, ylen |-> 2],
     [sep |-> "-", ymd |-> FALSE, ylen |-> 2] >>

SomeStatedFormatParses(s) == \E k \in 1..5 : strptime(s, StatedDateFormats[k]) /= NoDate

FirstStatedFormat(s) ==
  CHOOSE k \in 1..5 :
    /\ strptime(s, StatedDateFormats[k]) /= NoDate
    /\ \A j \in 1..(k - 1) : strptime(s, StatedDateFormats[j]) = NoDate

DateReturned == pc = "returned" /\ call.fn = "normalize_date"

\* C10 as stated: the YYYY-MM-DD form of the first stated format that parses,
\* else the input string unchanged; never raises.
C10_DateAsStated ==
  DateReturned =>
    /\ ret /= Raised
    /\ ret = IF SomeStatedFormatParses(Strip(call.arg))
               THEN strftime_iso(strptime(Strip(call.arg),
                                          StatedDateFormats[FirstStatedFormat(Strip(call.arg))]))
               ELSE call.arg

\* C10 (amended): the input is first stripped of surrounding whitespace; the
\* result is the YYYY-MM-DD form of the first stated format that parses the
\* stripped string ("05/03/2024" gives "2024-03-05"), else the stripped
\* string ("not-a-date" gives "not-a-date"); the empty string gives absent;
\* it never raises.
C10_DateStripped ==
  DateReturned =>
    /\ ret /= Raised
    /\ ret = IF call.arg = <<>> THEN None
             ELSE IF SomeStatedFormatParses(Strip(call.arg))
               THEN strftime_iso(strptime(Strip(call.arg),
                                          StatedDateFormats[FirstStatedFormat(Strip(call.arg))]))
             ELSE Strip(call.arg)
    /\ call.arg = <<"0", "5", "/", "0", "3", "/", "2", "0", "2", "4">> => ret = <<"2", "0", "2", "4", "-", "0", "3", "-", "0", "5">>
    /\ call.arg = NotADate => ret = NotADate

C10_Witness ==
  /\ DateReturned
  /\ call.arg = <<" ", "0", "5", "-", "0", "3", "-", "2", "4">>
  /\ ret = <<"2", "0", "2", "4", "-", "0", "3", "-", "0", "5">>

(***************************************************************************)
(* The generative-model adapter analyze_invoice_ollama, on the outcome of  *)
(* its single request:                                                     *)
(*   kind    "connection" or "timeout" (requests raises), "bad_body" (the  *)
(*           HTTP body is not the expected JSON object), "http" otherwise  *)
(*   status  the HTTP status code                                          *)
(*   parse   how the model's text parses: "direct" (json.loads accepts     *)
(*           it), "braces" (only its outermost {...} span parses), "fail"  *)
(*   value   the parsed JSON value                                         *)
(***************************************************************************)
\* the adapter without the test of the status code
analyze_invoice_ollama_ignores_status(outcome) ==
  IF outcome.kind /= "http" THEN AiNone
  ELSE IF outcome.parse = "fail" THEN AiNone
  ELSE outcome.value

analyze_invoice_ollama(outcome) ==
  IF outcome.kind /= "http" THEN AiNone
  ELSE IF outcome.status /= 200 THEN AiNone
  ELSE IF outcome.parse = "fail" THEN AiNone
  ELSE outcome.value

(***************************************************************************)
(* Inputs of the batch.                                                    *)
(***************************************************************************)
MaxDocs == 2

FileNames == <<"f1.pdf", "f2.pdf", "f3.pdf", "f4.pdf">>

\* a native text with every kind of finding
FullText ==
  MakeText([has_label |-> TRUE, block |-> << <<"0", "0", "0", "0", "0", "7", "5", "9", "4", "2">>, <<"A", "C", "M", "E", " ", "S", "r", "l">>, <<"V", "i", "a", " ", "R", "o", "m", "a", " ", "1">> >>],
           << <<"0", "5", "/", "0", "3", "/", "2", "0", "2", "4">> >>, << <<"1", "0", "0", ",", "0", "0">> >>,
           [inv_nums |-> << <<"1", "2">>, <<"3", "6", "3", "0", "/", "8">> >>, articolo_lines |-> <<"Sedia 10,00">>], TRUE,
           [imponibili |-> << <<"1", ".", "0", "0", "0", ",", "0", "0">> >>, iva_matches |-> << <<"2", "2">> >>], None)

\* a text layer of a few characters in which no search finds anything
ShortText == [BlankText EXCEPT !.short = TRUE]

\* what pdfplumber yields: nothing (no text layer, or the read failed), a
\* few characters, or a text
NativeTexts == { NoText, ShortText, FullText }

\* what a completed OCR yields: nothing (it failed) or a text
OcrTexts == { NoText, [ExampleTotalText EXCEPT !.short = FALSE] }

HeaderSuppliers == { None, <<"B", "e", "t", "a", " ", "S", ".", "p", ".", "A", ".">> }

FullAiDict ==
  MakeAiDict(<<"G", "a", "m", "m", "a", " ", "S", "r", "l">>, <<"R", "o", "s", "s", "i">>, <<"2", "0", "2", "4", "-", "0", "3", "-", "0", "5">>, <<"A", "I", "-", "7", "7">>, PyInt(<<"1", "0", "0", "0", "0", "0">>),
             <<"u", "s", "d">>, PyList(<<"Sedia", "Tavolo">>))

EmptyAiDict == AiDict({}, [k \in AiKeys |-> None])

OllamaOutcomes ==
  { [kind |-> "connection", status |-> 0, parse |-> "fail", value |-> AiNone],
    [kind |-> "timeout", status |-> 0, parse |-> "fail", value |-> AiNone],
    [kind |-> "bad_body", status |-> 200, parse |-> "fail", value |-> AiNone],
    [kind |-> "http", status |-> 500, parse |-> "direct", value |-> FullAiDict],
    [kind |-> "http", status |-> 200, parse |-> "fail", value |-> AiNone],
    [kind |-> "http", status |-> 200, parse |-> "braces", value |-> FullAiDict] }
  \cup { [kind |-> "http", status |-> 200, parse |-> "direct", value |-> v] :
           v \in { AiNone, EmptyAiDict, FullAiDict, AiValue(PyList(<<"Sedia">>)),
                   AiValue(PyList(<<>>)) } }

(***************************************************************************)
(* The batch loop over uploaded_files.  doc_index counts the documents     *)
(* done; the locals of an iteration are dead once its record is appended   *)
(* and return to their idle values.                                        *)
(***************************************************************************)
Init ==
  /\ pc = "get_text"
  /\ call = [fn |-> "none", arg |-> None, currency |-> None]
  /\ ret = None
  /\ use_ai \in BOOLEAN
  /\ use_ocr_fallback \in BOOLEAN
  /\ ocr_ready \in BOOLEAN
  /\ \E n \in 1..MaxDocs : uploaded_files = SubSeq(FileNames, 1, n)
  /\ doc_index = 0
  /\ text = NoDoc
  /\ header_supplier = None
  /\ regex_data = NoDoc
  /\ ai_data = AiNone
  /\ extracted = NoDoc
  /\ results_list = <<>>
  /\ native_text = NoDoc
  /\ ocr_text = NoDoc
  /\ response = NoDoc
  /\ requests_sent = 0

config_vars == <<call, ret, use_ai, use_ocr_fallback, ocr_ready, uploaded_files>>

\* ocr_full_pdf: nothing when the OCR stack is missing or fails
ocr_full_pdf(ocr_outcome) == IF ~ocr_ready THEN NoText ELSE ocr_outcome

\* get_invoice_text without the test of use_ocr_if_empty
get_invoice_text_ignores_setting(native, ocr_outcome) ==
  IF ~native.nonempty \/ native.short
    THEN LET ocr == ocr_full_pdf(ocr_outcome) IN [text |-> ocr, ocr_text |-> ocr]
    ELSE [text |-> native, ocr_text |-> NoDoc]

\* get_invoice_text: the native text, replaced by the OCR text when the
\* fallback is enabled and the native text is empty or short; ocr_text is
\* what ocr_full_pdf returned when it was called, NoDoc when it was not
get_invoice_text(native, ocr_outcome) ==
  IF use_ocr_fallback /\ (~native.nonempty \/ native.short)
    THEN LET ocr == ocr_full_pdf(ocr_outcome) IN [text |-> ocr, ocr_text |-> ocr]
    ELSE [text |-> native, ocr_text |-> NoDoc]

GetInvoiceText ==
  /\ pc = "get_text"
  /\ doc_index < Len(uploaded_files)
  /\ \E native \in NativeTexts, ocr_outcome \in OcrTexts :
       /\ native_text' = native
       /\ text' = get_invoice_text(native, ocr_outcome).text
       /\ ocr_text' = get_invoice_text(native, ocr_outcome).ocr_text
  /\ pc' = "ocr_diag"
  /\ UNCHANGED <<config_vars, doc_index, header_supplier, regex_data, ai_data, extracted,
                 results_list, response, requests_sent>>

\* run_ocr_diagnostics and extract_supplier_from_header_text: a name only
\* when the OCR stack is there
RunOcrDiagnostics ==
  /\ pc = "ocr_diag"
  /\ header_supplier' \in (IF ocr_ready THEN HeaderSuppliers ELSE {None})
  /\ pc' = "regex"
  /\ UNCHANGED <<config_vars, doc_index, text, regex_data, ai_data, extracted, results_list,
                 native_text, ocr_text, response, requests_sent>>

AnalyzeRegex ==
  /\ pc = "regex"
  /\ regex_data' = analyze_invoice_regex(text, header_supplier)
  /\ pc' = "ai"
  /\ UNCHANGED <<config_vars, doc_index, text, header_supplier, ai_data, extracted,
                 results_list, native_text, ocr_text, response, requests_sent>>

CallOllama ==
  /\ pc = "ai"
  /\ use_ai
  /\ \E outcome \in OllamaOutcomes :
       /\ response' = outcome
       /\ ai_data' = analyze_invoice_ollama(outcome)
  /\ requests_sent' = requests_sent + 1
  /\ pc' = "merge"
  /\ UNCHANGED <<config_vars, doc_index, text, header_supplier, regex_data, extracted,
                 results_list, native_text, ocr_text>>

SkipOllama ==
  /\ pc = "ai"
  /\ ~use_ai
  /\ ai_data' = AiNone
  /\ pc' = "merge"
  /\ UNCHANGED <<config_vars, doc_index, text, header_supplier, regex_data, extracted,
                 results_list, native_text, ocr_text, response, requests_sent>>

\* the label with "is not None" in place of the truth value of ai_data
method_used_not_none(ai) ==
  IF use_ai /\ ai /= AiNone THEN "Regex + AI"
  ELSE IF ~use_ai THEN "Solo Regex"
  ELSE "Solo Regex (AI non disponibile)"

method_used(ai) ==
  IF use_ai /\ AiTruthy(ai) THEN "Regex + AI"
  ELSE IF ~use_ai THEN "Solo Regex"
  ELSE "Solo Regex (AI non disponibile)"

MergeAndAppend ==
  /\ pc = "merge"
  /\ ~MergeRaises(ai_data, regex_data)
  /\ results_list' =
       Append(results_list,
              merge_ai_and_regex(ai_data, regex_data)
                @@ [NomeFile |-> uploaded_files[doc_index + 1], Metodo |-> method_used(ai_data)])
  /\ doc_index' = doc_index + 1
  /\ pc' = IF doc_index + 1 < Len(uploaded_files) THEN "get_text" ELSE "done"
  /\ text' = NoDoc
  /\ header_supplier' = None
  /\ regex_data' = NoDoc
  /\ ai_data' = AiNone
  /\ native_text' = NoDoc
  /\ ocr_text' = NoDoc
  /\ response' = NoDoc
  /\ UNCHANGED <<config_vars, extracted, requests_sent>>

\* the exception of the merge leaves the loop: the script run ends
MergeAbort ==
  /\ pc = "merge"
  /\ MergeRaises(ai_data, regex_data)
  /\ pc' = "aborted"
  /\ UNCHANGED <<config_vars, doc_index, text, header_supplier, regex_data, ai_data,
                 extracted, results_list, native_text, ocr_text, response, requests_sent>>

Next ==
  \/ GetInvoiceText
  \/ RunOcrDiagnostics
  \/ AnalyzeRegex
  \/ CallOllama
  \/ SkipOllama
  \/ MergeAndAppend
  \/ MergeAbort

Spec == Init /\ [][Next]_vars

\* C1: no failure in one document aborts the batch: the loop never stops on
\* an exception, one record per document done is in results_list, in upload
\* order, and at the end there is one record per uploaded file.
C1_NoDocumentAbortsBatch ==
  /\ pc /= "aborted"
  /\ Len(results_list) = doc_index
  /\ \A k \in 1..Len(results_list) : results_list[k].NomeFile = uploaded_files[k]
  /\ pc = "done" => Len(results_list) = Len(uploaded_files)

(***************************************************************************)
(* Claims on the stages of the batch loop, over Spec.                      *)
(***************************************************************************)
\* the record appended by a step of the loop
NewRecord == results_list'[Len(results_list')]

\* the step that merges the current document and appends its record
RecordAppended == pc = "merge" /\ pc' \in {"get_text", "done"}

\* the request raised (connection failure, timeout, a body that is not the
\* expected JSON), the status is not 200, or the model's text is not JSON
\* even inside its outermost braces
RequestFailed(r) ==
  \/ r.kind \in {"connection", "timeout", "bad_body"}
  \/ r.status /= 200
  \/ r.parse = "fail"

\* C11: the adapter sends one request per document, and only when AI is
\* enabled; when the request fails (non-200 status, connection failure,
\* timeout, text that is not JSON) it returns None without raising, and the
\* record of the document is the merge of the regex findings alone.
C11_SingleRequestFailSoft ==
  [][ /\ requests_sent' - requests_sent \in {0, 1}
      /\ requests_sent' = requests_sent + 1 => use_ai /\ pc = "ai"
      /\ (pc = "ai" /\ use_ai) => requests_sent' = requests_sent + 1 /\ pc' = "merge"
      /\ (pc = "ai" /\ use_ai /\ RequestFailed(response')) => ai_data' = AiNone
      /\ (pc = "merge" /\ response /= NoDoc /\ RequestFailed(response)) =>
           /\ RecordAppended
           /\ NewRecord = merge_ai_and_regex(AiNone, regex_data)
                            @@ [NomeFile |-> uploaded_files[doc_index + 1],
                                Metodo |-> "Solo Regex (AI non disponibile)"]
    ]_vars

\* the second document's request came back with status 500 after the first
\* document's request had failed too
C11_Witness ==
  /\ pc = "merge"
  /\ doc_index = 1
  /\ requests_sent = 2
  /\ response /= NoDoc
  /\ response.status = 500
  /\ ai_data = AiNone
  /\ results_list[1].Metodo = "Solo Regex (AI non disponibile)"

\* C12: get_invoice_text calls the OCR exactly when the fallback is enabled
\* and the native text is empty or shorter than the threshold; the text it
\* returns is then the OCR output, otherwise the native text unchanged; the
\* loop always goes on to the next stage.
C12_OcrFallback ==
  native_text /= NoDoc =>
    LET invoked == ocr_text /= NoDoc
    IN  /\ invoked <=> (use_ocr_fallback /\ (~native_text.nonempty \/ native_text.short))
        /\ invoked => text = ocr_text
        /\ ~invoked => text = native_text
        /\ pc \in {"ocr_diag", "regex", "ai", "merge", "aborted"}

\* a short native text was replaced by the text the OCR read
C12_Witness ==
  /\ pc = "regex"
  /\ native_text = ShortText
  /\ ocr_text /= NoDoc
  /\ ocr_text.nonempty
  /\ text = ocr_text
  /\ text /= native_text

\* bool(ai_data) of what the adapter returned
ReturnedNonEmpty(ai) == IF ai.isdict THEN ai.keys /= {} ELSE Truthy(ai.v)

\* C17: the label of a record is "Regex + AI" exactly when AI is enabled
\* and the adapter returned a non-empty result, "Solo Regex" exactly when
\* AI is disabled, "Solo Regex (AI non disponibile)" otherwise; a record
\* with another label than "Regex + AI" has the fields the merge gives for
\* the same regex findings without a model output.
C17_MethodLabel ==
  [][ RecordAppended =>
        /\ NewRecord.Metodo = "Regex + AI" <=> (use_ai /\ ReturnedNonEmpty(ai_data))
        /\ NewRecord.Metodo = "Solo Regex" <=> ~use_ai
        /\ NewRecord.Metodo = "Solo Regex (AI non disponibile)"
             <=> (use_ai /\ ~ReturnedNonEmpty(ai_data))
        /\ NewRecord.Metodo /= "Regex + AI" =>
             NewRecord = merge_ai_and_regex(AiNone, regex_data)
                           @@ [NomeFile |-> NewRecord.NomeFile, Metodo |-> NewRecord.Metodo]
    ]_vars

\* a batch with a record of each AI-enabled label
C17_Witness ==
  /\ Len(results_list) = 2
  /\ results_list[1].Metodo = "Solo Regex (AI non disponibile)"
  /\ results_list[2].Metodo = "Regex + AI"
  /\ results_list[2].elenco_articoli /= results_list[1].elenco_articoli

(***************************************************************************)
(* extract_text_from_pdf, on a document given as what pdfplumber does with *)
(* it: opens tells whether pdfplumber.open succeeds, pages is what         *)
(* page.extract_text() does on each page: it returns a text, returns None  *)
(* (a page without text layer) or raises.                                  *)
(***************************************************************************)
MaxPages == 3

PageTexts == { <<"A">>, <<"B", " ", "1", ",", "0", "0">> }

PageOutcomes == PageTexts \cup { None, Raised }

PdfInputs == { [opens |-> o, pages |-> p] : o \in BOOLEAN, p \in StringsUpTo(PageOutcomes, MaxPages) }

\* the loop over pdf.pages inside the try: an exception of a page leaves the
\* loop and is reported by the handler that follows the loop
RECURSIVE ExtractPages(_, _, _)
ExtractPages(pages, k, txt) ==
  IF k > Len(pages) THEN txt
  ELSE IF pages[k] = Raised THEN txt
  ELSE LET page_text == IF pages[k] = None THEN <<>> ELSE pages[k]
       IN  ExtractPages(pages, k + 1, txt \o page_text \o <<"\n">>)

extract_text_from_pdf(pdf) ==
  IF ~pdf.opens THEN <<>> ELSE ExtractPages(pdf.pages, 1, <<>>)

InitExtract ==
  /\ pc = "input"
  /\ \E pdf \in PdfInputs : call = [fn |-> "extract_text_from_pdf", arg |-> pdf, currency |-> None]
  /\ ret = None
  /\ PipelineIdle

CallExtractText ==
  /\ pc = "input"
  /\ call.fn = "extract_text_from_pdf"
  /\ ret' = extract_text_from_pdf(call.arg)
  /\ pc' = "returned"
  /\ UNCHANGED <<call, pipeline_vars>>

NextExtract == CallExtractText

SpecExtract == InitExtract /\ [][NextExtract]_vars

\* the text of every page in page order, each followed by a newline, with
\* the empty string for a page whose extraction failed
RECURSIVE PagesWithFailuresBlank(_, _)
PagesWithFailuresBlank(pages, k) ==
  IF k > Len(pages) THEN <<>>
  ELSE (IF pages[k] \in {None, Raised} THEN <<>> ELSE pages[k]) \o <<"\n">>
         \o PagesWithFailuresBlank(pages, k + 1)

\* C13: when the extraction of a page fails, the empty string stands for
\* that page and the text of every other page, the later ones included, is
\* in the result in page order.
C13_PerPageTolerance ==
  (pc = "returned" /\ call.arg.opens) => ret = PagesWithFailuresBlank(call.arg.pages, 1)

(***************************************************************************)
(* The invoice-number extractor of analyze_invoice_regex, on the lines of  *)
(* a text.  A line is given with what re.findall(invoice_num_pattern)      *)
(* captures in it, and with whether it is a postal-address line.           *)
(***************************************************************************)
MaxLines == 3

InvoiceLines ==
  { [line |-> "Via Roma 12", address |-> TRUE, captures |-> <<>>],
    [line |-> "Via Roma N. 12", address |-> TRUE, captures |-> << <<"1", "2">> >>],
    [line |-> "Fattura N. 3630/8", address |-> FALSE, captures |-> << <<"3", "6", "3", "0", "/", "8">> >>],
    [line |-> "Data: 01/01/2024", address |-> FALSE, captures |-> <<>>],
    [line |-> "Fattura 01/03/2024", address |-> FALSE, captures |-> << <<"0", "1", "/", "0", "3", "/", "2", "0", "2", "4">> >>],
    [line |-> "Invoice 2024", address |-> FALSE, captures |-> << <<"2", "0", "2", "4">> >>],
    [line |-> "N. A12", address |-> FALSE, captures |-> << <<"A", "1", "2">> >>],
    [line |-> "Fattura 77", address |-> FALSE, captures |-> << <<"7", "7">> >>],
    [line |-> "Fattura n. 000000000075942", address |-> FALSE,
     captures |-> << <<"0", "0", "0", "0", "0", "0", "0", "0", "0", "0", "7", "5", "9", "4", "2">> >>],
    [line |-> "Invoice date 05/03/2024", address |-> FALSE, captures |-> << <<"d", "a", "t", "e">> >>] }

InvoiceTexts == StringsUpTo(InvoiceLines, MaxLines)

\* re.findall(invoice_num_pattern, text): the captures in text order
RECURSIVE FindInvoiceNumbers(_, _)
FindInvoiceNumbers(lines, k) ==
  IF k > Len(lines) THEN <<>>
  ELSE lines[k].captures \o FindInvoiceNumbers(lines, k + 1)

\* data["Numero Fattura"]
NumeroFattura(lines) ==
  LET chosen_num == ChooseInvoiceNumber(FindInvoiceNumbers(lines, 1), 1, None)
  IN  IF chosen_num /= None /\ chosen_num /= <<>> THEN chosen_num ELSE None

InitNumber ==
  /\ pc = "input"
  /\ \E lines \in InvoiceTexts :
       call = [fn |-> "analyze_invoice_regex", arg |-> lines, currency |-> None]
  /\ ret = None
  /\ PipelineIdle

CallAnalyzeNumber ==
  /\ pc = "input"
  /\ call.fn = "analyze_invoice_regex"
  /\ ret' = NumeroFattura(call.arg)
  /\ pc' = "returned"
  /\ UNCHANGED <<call, pipeline_vars>>

NextNumber == CallAnalyzeNumber

SpecNumber == InitNumber /\ [][NextNumber]_vars

(***************************************************************************)
(* Claim on the invoice-number extractor, over SpecNumber.                 *)
(***************************************************************************)
\* the candidate tokens of a text, each with the kind of its line
RECURSIVE Candidates(_, _)
Candidates(lines, k) ==
  IF k > Len(lines) THEN <<>>
  ELSE [j \in 1..Len(lines[k].captures) |->
          [token |-> lines[k].captures[j], address |-> lines[k].address]]
         \o Candidates(lines, k + 1)

HasDigit(tok) == \E k \in 1..Len(tok) : IsDecimalChar(tok[k])
HasLetter(tok) == \E k \in 1..Len(tok) : tok[k] \in Range(UpperLetters) \cup Range(LowerLetters)

\* digits, a "/" or "-", digits, the same separator, digits
DateShaped(tok) ==
  \E sep \in {"/", "-"} :
    LET f == Split(tok, sep)
    IN  Len(f) = 3 /\ \A k \in 1..3 : f[k] /= <<>> /\ AllDecimal(f[k])

PlausibleYear(tok) == Len(tok) = 4 /\ AllDecimal(tok) /\ StrToNat(tok) > 2000

StopList ==
  { <<"p", "a", "g", "e">>, <<"p", "a", "g", "i", "n", "a">>, <<"d", "a", "t", "e">>, <<"d", "a", "t", "a">>, <<"i", "n", "v", "o", "i", "c", "e">>, <<"f", "a", "t", "t", "u", "r", "a">>,
    <<"p", "h", "o", "n", "e">>, <<"t", "e", "l">>, <<"f", "a", "x">>, <<"v", "a", "t">>, <<"i", "v", "a">> }

Survives(c) ==
  /\ ~c.address
  /\ HasDigit(c.token)
  /\ ~DateShaped(c.token)
  /\ ~PlausibleYear(c.token)
  /\ Lower(c.token) \notin StopList

FirstToken(cands) == IF cands = <<>> THEN None ELSE cands[1].token

HasSlashOrDash(c) == CountChar(c.token, "/") > 0 \/ CountChar(c.token, "-") > 0
MixesLettersAndDigits(c) == HasLetter(c.token) /\ HasDigit(c.token)

PolicyNumber(lines) ==
  LET survivors == SelectSeq(Candidates(lines, 1), Survives)
      slashed   == SelectSeq(survivors, HasSlashOrDash)
      mixed     == SelectSeq(survivors, MixesLettersAndDigits)
  IN  IF slashed /= <<>> THEN FirstToken(slashed)
      ELSE IF mixed /= <<>> THEN FirstToken(mixed)
      ELSE FirstToken(survivors)

\* C14: the number returned is, among the candidates that are not on an
\* address line, have a digit, are not date-shaped, not a plausible year and
\* not a stop-list word, the first with "/" or "-", else the first mixing
\* letters and digits, else the first, and None when there is none.
C14_NumberPolicy ==
  pc = "returned" => ret = PolicyNumber(call.arg)

(***************************************************************************)
(* Claims on supplier, customer and the origin of values, over SpecMerge.  *)
(***************************************************************************)
SameIgnoringCase(a, b) == Lower(a) = Lower(b)

RegexDone == pc \in {"merge", "merged", "raised"}

\* C15: a supplier equal to the customer ignoring case is discarded: neither
\* the regex findings nor the merged record hold a supplier and a customer
\* that are both present and equal ignoring case.
C15_NoSupplierCustomerCollision ==
  /\ RegexDone =>
       ~( /\ Present(regex_data.Fornitore)
          /\ Present(regex_data.Cliente)
          /\ SameIgnoringCase(regex_data.Fornitore, regex_data.Cliente) )
  /\ Merged =>
       ~( /\ Present(extracted.fornitore)
          /\ Present(extracted.cliente)
          /\ SameIgnoringCase(extracted.fornitore, PyStr(extracted.cliente)) )

\* the model answer holds a value for the key
ModelHas(key) == ModelValue(key) /= None

AllAbsentFindings(rx) ==
  /\ \A f \in {"Fornitore", "Cliente", "Data", "NumeroFattura", "ImportoTotale", "Valuta",
               "ImponibileIVA", "CodiceIVA"} : rx[f] = None
  /\ rx.ElencoArticoliRegex = PyList(<<>>)

AllAbsentRecord(r) ==
  /\ \A f \in {"fornitore", "cliente", "data_fattura", "data_documento_portale",
               "numero_fattura", "importo_totale", "importo_totale_raw", "valuta",
               "imponibile_iva", "codice_iva"} : r[f] = None
  /\ r.elenco_articoli = PyList(<<>>)

\* C16: no field of a merged record has a value that neither the regex
\* findings (header OCR supplier included) nor the model answer holds for
\* that field; the findings of an empty text are all absent, and from absent
\* findings and no model answer every field of the record is absent and the
\* line-item list is empty.
C16_NoFabricatedValues ==
  /\ (RegexDone /\ ~text.nonempty) => AllAbsentFindings(regex_data)
  /\ Merged =>
       /\ Present(extracted.fornitore) =>
            /\ extracted.fornitore = regex_data.Fornitore
            /\ extracted.fornitore \in {text.fornitore_line, header_supplier}
       /\ Present(extracted.cliente) =>
            extracted.cliente \in {regex_data.Cliente, ModelValue("cliente")}
       /\ Present(extracted.data_fattura) =>
            Present(regex_data.Data) \/ ModelHas("data_fattura")
       /\ Present(extracted.data_documento_portale) => Present(extracted.data_fattura)
       /\ Present(extracted.numero_fattura) =>
            extracted.numero_fattura \in {regex_data.NumeroFattura, ModelValue("numero_fattura")}
       /\ Present(extracted.importo_totale_raw) =>
            Present(regex_data.ImportoTotale) \/ ModelHas("importo_totale")
       /\ Present(extracted.importo_totale) => Present(extracted.importo_totale_raw)
       /\ Present(extracted.valuta) => Present(regex_data.Valuta) \/ ModelHas("valuta")
       /\ Present(extracted.imponibile_iva) => Present(regex_data.ImponibileIVA)
       /\ Present(extracted.codice_iva) => extracted.codice_iva = regex_data.CodiceIVA
       /\ extracted.elenco_articoli /= PyList(<<>>) =>
            extracted.elenco_articoli
              \in {regex_data.ElencoArticoliRegex, ModelValue("elenco_articoli")}
       /\ (AllAbsentFindings(regex_data) /\ ~AiTruthy(ai_data)) => AllAbsentRecord(extracted)

\* an empty text with no model answer, merged into a record without values
C16_Witness ==
  /\ Merged
  /\ ~text.nonempty
  /\ ai_data = AiNone
  /\ AllAbsentFindings(regex_data)
  /\ AllAbsentRecord(extracted)

====
